---- MODULE Spec2Model ----
(***************************************************************************)
(* generate-manifest.py: the manifest generator of the incremental artwork *)
(* updates.  One run of the script scans the artwork directories, loads    *)
(* manifest.json, reconciles the two (update_manifest) or rebuilds the     *)
(* manifest from the scan alone (reset_manifest), writes manifest.json and *)
(* exits with a code that tells the git hook whether to stage the file.    *)
(*                                                                         *)
(* A path string is a finite sequence of code points; Python compares and  *)
(* sorts strings lexicographically by code point.  A JSON object is a      *)
(* function from its keys to their values, so that a key may be missing.   *)
(***************************************************************************)
EXTENDS Integers, Sequences, FiniteSets, TLC

VARIABLES
    fs,     \* the entries now under REPO_ROOT (the working tree)
    disk,   \* manifest.json: absent, unparsable, or a JSON object
    last,   \* the most recent run of the script, until the tree changes
    gone    \* the paths an update has dropped from the manifest since the
            \* last reset and no run has recorded again, each with the added
            \* value it had (followed under SpecHistory only)

vars == <<fs, disk, last, gone>>

----------------------------------------------------------------------------
(* Configuration *)

BASE_VERSION == 19

ARTWORK_DIRS == {"lcdmarquees", "metadata"}

ARTWORK_EXTENSIONS == {".png", ".jpg", ".jpeg", ".gif", ".json", ".mp4"}

----------------------------------------------------------------------------
(* Bounds of the model *)

\* update runs are explored while the bumped version stays <= MaxVersion
MaxVersion == 20

\* --reset takes BASE_VERSION - ResetSpan .. BASE_VERSION + ResetSpan
ResetSpan == 1

\* a manifest.json found at the start holds at most MaxInitFiles records
MaxInitFiles == 3

ResetVersions == (BASE_VERSION - ResetSpan) .. (BASE_VERSION + ResetSpan)

\* The entries that may exist under REPO_ROOT.  path is the relative path
\* with forward slashes, as a string of code points.
Tree ==
    { [path |-> <<1>>,    dir |-> "lcdmarquees", suffix |-> ".png",  is_file |-> TRUE],
      [path |-> <<1, 2>>, dir |-> "lcdmarquees", suffix |-> ".PNG",  is_file |-> TRUE],
      [path |-> <<2>>,    dir |-> "metadata",    suffix |-> ".json", is_file |-> TRUE],
      [path |-> <<3>>,    dir |-> "lcdmarquees", suffix |-> ".txt",  is_file |-> TRUE] }

\* what a manifest.json found at the start may hold: its records (two of
\* them for the same path), its version and its base_version
InitRecords ==
    { [path |-> <<1>>,    added |-> BASE_VERSION - 2],
      [path |-> <<1>>,    added |-> BASE_VERSION - 1],
      [path |-> <<2>>,    added |-> BASE_VERSION - 2] }

InitVersions == {BASE_VERSION - 1}

InitBaseVersions == {BASE_VERSION - 2}

----------------------------------------------------------------------------
(* Strings and dictionaries *)

\* str.lower() on the suffixes of Tree
lower(s) ==
    CASE s = ".PNG" -> ".png"
      [] OTHER -> s

\* a < b on Python strings: the first differing code point decides, and a
\* proper prefix is smaller
StrLess(a, b) ==
    \/ /\ Len(a) < Len(b)
       /\ \A i \in 1..Len(a) : a[i] = b[i]
    \/ \E k \in 1..Len(a) :
          /\ k <= Len(b)
          /\ \A i \in 1..(k - 1) : a[i] = b[i]
          /\ a[k] < b[k]

\* the mutant of sorted: descending order
sorted_descending(S) ==
    LET RECURSIVE srt(_)
        srt(T) == IF T = {} THEN <<>>
                  ELSE LET m == CHOOSE x \in T : \A y \in T \ {x} : StrLess(y, x)
                       IN <<m>> \o srt(T \ {m})
    IN srt(S)

\* sorted(S) for a set of strings S: ascending
sorted(S) ==
    LET RECURSIVE srt(_)
        srt(T) == IF T = {} THEN <<>>
                  ELSE LET m == CHOOSE x \in T : \A y \in T \ {x} : StrLess(x, y)
                       IN <<m>> \o srt(T \ {m})
    IN srt(S)

\* d.get(key, default)
Get(d, key, default) == IF key \in DOMAIN d THEN d[key] ELSE default

\* d[key] = value
Put(d, key, value) ==
    [k \in DOMAIN d \cup {key} |-> IF k = key THEN value ELSE d[k]]

----------------------------------------------------------------------------
(* manifest.json *)

Absent == [exists |-> FALSE, parses |-> FALSE, json |-> <<>>]

\* the file exists and json.load fails on it: empty, truncated, garbage
Unparsable == [exists |-> TRUE, parses |-> FALSE, json |-> <<>>]

Document(manifest) == [exists |-> TRUE, parses |-> TRUE, json |-> manifest]

\* get_all_artwork_files
get_all_artwork_files(tree) ==
    { e.path : e \in { x \in tree : /\ x.dir \in ARTWORK_DIRS
                                    /\ x.is_file
                                    /\ lower(x.suffix) \in ARTWORK_EXTENSIONS } }

\* the mutant of load_manifest: the fresh manifest starts at version 0
load_manifest_from_zero(file) ==
    IF file.exists /\ file.parses
    THEN file.json
    ELSE [version |-> 0, base_version |-> 0, files |-> <<>>]

\* load_manifest
load_manifest(file) ==
    IF file.exists /\ file.parses
    THEN file.json
    ELSE [version |-> BASE_VERSION, base_version |-> BASE_VERSION, files |-> <<>>]

\* save_manifest: open(MANIFEST_PATH, "w") truncates the file, json.dump and
\* f.write fill it.  io is what the filesystem does:
\*   "ok"          every write succeeds
\*   "open_fails"  open raises, the file is as it was
\*   "write_fails" open has truncated the file and a write (or the flush on
\*                 close) raises: the file is left empty or cut short
save_manifest(file, manifest, io) ==
    CASE io = "ok"          -> Document(manifest)
      [] io = "open_fails"  -> file
      [] io = "write_fails" -> Unparsable

IO == {"ok", "open_fails", "write_fails"}

----------------------------------------------------------------------------
(* update_manifest *)

\* the mutant of current_version: the loaded version is ignored
current_version_default(manifest) == BASE_VERSION

\* current_version = manifest.get("version", BASE_VERSION)
current_version(manifest) == Get(manifest, "version", BASE_VERSION)

\* existing_files = {f["path"]: f["added"] for f in manifest.get("files", [])}
\* a later record of a path overwrites an earlier one
existing_files(manifest) ==
    LET files == Get(manifest, "files", <<>>)
        last_index(p) ==
            CHOOSE i \in 1..Len(files) :
                /\ files[i].path = p
                /\ \A j \in (i + 1)..Len(files) : files[j].path # p
    IN [p \in {files[i].path : i \in 1..Len(files)} |-> files[last_index(p)].added]

\* new_files = current_files - existing_paths
new_files(current_files, existing) == current_files \ DOMAIN existing

\* the mutant of removed_files: the operands of the difference swapped
removed_files_swapped(current_files, existing) == current_files \ DOMAIN existing

\* removed_files = existing_paths - current_files
removed_files(current_files, existing) == DOMAIN existing \ current_files

\* the mutant of should_bump: --force is ignored
should_bump_new_only(force_bump, new) == Cardinality(new) > 0

\* the mutant of should_bump: only --force bumps
should_bump_forced_only(force_bump, new) == force_bump

\* should_bump = force_bump or len(new_files) > 0
should_bump(force_bump, new) == force_bump \/ Cardinality(new) > 0

\* the mutant of new_version: every run bumps
new_version_always(current, bump) == current + 1

\* new_version = current_version + 1 if should_bump else current_version
new_version(current, bump) == IF bump THEN current + 1 ELSE current

\* the mutant of file_record: a new file is tagged with the version before
\* the bump
file_record_stale_tag(path, existing, version) ==
    IF path \in DOMAIN existing
    THEN [path |-> path, added |-> existing[path]]
    ELSE [path |-> path, added |-> version - 1]

\* the mutant of file_record: every record is tagged with the new version
file_record_retagged(path, existing, version) ==
    [path |-> path, added |-> version]

\* the body of the loop over sorted(current_files)
file_record(path, existing, version) ==
    IF path \in DOMAIN existing
    THEN [path |-> path, added |-> existing[path]]
    ELSE [path |-> path, added |-> version]

\* the mutant of updated_files: the records of removed paths are kept
updated_files_keeping_removed(current_files, existing, version) ==
    LET paths == sorted(current_files \cup DOMAIN existing)
    IN [i \in 1..Len(paths) |-> file_record(paths[i], existing, version)]

\* updated_files, built by the loop over sorted(current_files)
updated_files(current_files, existing, version) ==
    LET paths == sorted(current_files)
    IN [i \in 1..Len(paths) |-> file_record(paths[i], existing, version)]

\* update_manifest up to save_manifest: the manifest to save and the tuple
\* to return
update_manifest(manifest, current_files, force_bump) ==
    LET existing == existing_files(manifest)
        new      == new_files(current_files, existing)
        removed  == removed_files(current_files, existing)
        version  == new_version(current_version(manifest), should_bump(force_bump, new))
        files    == updated_files(current_files, existing, version)
    IN [manifest |-> Put(Put(Put(manifest, "version", version),
                                 "base_version", BASE_VERSION),
                             "files", files),
        result   |-> <<Cardinality(new), Cardinality(removed), version>>]

----------------------------------------------------------------------------
(* reset_manifest *)

\* the mutant of reset_manifest: base_version keeps the configured constant
reset_manifest_base_kept(current_files, new_base_version) ==
    LET paths == sorted(current_files)
    IN [manifest |-> [version      |-> new_base_version,
                      base_version |-> BASE_VERSION,
                      files        |-> [i \in 1..Len(paths) |->
                                           [path |-> paths[i], added |-> new_base_version]]],
        result   |-> <<Cardinality(current_files), new_base_version>>]

\* reset_manifest up to save_manifest
reset_manifest(current_files, new_base_version) ==
    LET paths == sorted(current_files)
    IN [manifest |-> [version      |-> new_base_version,
                      base_version |-> new_base_version,
                      files        |-> [i \in 1..Len(paths) |->
                                           [path |-> paths[i], added |-> new_base_version]]],
        result   |-> <<Cardinality(current_files), new_base_version>>]

----------------------------------------------------------------------------
(* main *)

\* the value main returns in normal mode
exit_code(new_count, removed_count, force) ==
    IF new_count = 0 /\ removed_count = 0 /\ ~force THEN 0 ELSE 1

\* no run yet, or the tree has changed since the last one
NoRun ==
    [op |-> "none", force |-> FALSE, reset |-> 0, before |-> Absent,
     current_files |-> {}, raised |-> FALSE, result |-> <<>>, exit |-> 0,
     repeat |-> FALSE]

\* this run is an update without --force that follows a completed update
\* without --force, the tree and manifest.json untouched in between
Repeats(run, force_bump, io) ==
    /\ ~force_bump /\ io = "ok"
    /\ run.op = "update" /\ ~run.force /\ ~run.raised

\* python3 generate-manifest.py [--force]
\* An exception leaves main without a return value: the interpreter exits 1.
Update(force_bump, io) ==
    LET current_files == get_all_artwork_files(fs)
        u == update_manifest(load_manifest(disk), current_files, force_bump)
    IN /\ u.result[3] <= MaxVersion
       /\ disk' = save_manifest(disk, u.manifest, io)
       /\ last' = [op |-> "update", force |-> force_bump, reset |-> 0,
                   before |-> disk, current_files |-> current_files,
                   raised |-> io # "ok",
                   result |-> IF io = "ok" THEN u.result ELSE <<>>,
                   exit |-> IF io = "ok"
                            THEN exit_code(u.result[1], u.result[2], force_bump)
                            ELSE 1,
                   repeat |-> Repeats(last, force_bump, io)]
       /\ UNCHANGED fs

\* python3 generate-manifest.py --reset VERSION
Reset(new_base_version, io) ==
    LET current_files == get_all_artwork_files(fs)
        r == reset_manifest(current_files, new_base_version)
    IN /\ disk' = save_manifest(disk, r.manifest, io)
       /\ last' = [op |-> "reset", force |-> FALSE, reset |-> new_base_version,
                   before |-> disk, current_files |-> current_files,
                   raised |-> io # "ok",
                   result |-> IF io = "ok" THEN r.result ELSE <<>>,
                   exit |-> 1,
                   repeat |-> FALSE]
       /\ UNCHANGED fs

\* between two runs an entry appears under REPO_ROOT
CreateEntry(e) ==
    /\ e \notin fs
    /\ fs' = fs \cup {e}
    /\ last' = NoRun
    /\ UNCHANGED disk

\* between two runs an entry disappears from under REPO_ROOT
DeleteEntry(e) ==
    /\ e \in fs
    /\ fs' = fs \ {e}
    /\ last' = NoRun
    /\ UNCHANGED disk

----------------------------------------------------------------------------
(* Specifications *)

\* a fresh checkout: no manifest.json, no artwork
Init ==
    /\ fs = {}
    /\ disk = Absent
    /\ last = NoRun
    /\ gone = <<>>

RECURSIVE SeqsUpTo(_, _)
SeqsUpTo(S, n) ==
    IF n = 0 THEN {<<>>}
    ELSE LET shorter == SeqsUpTo(S, n - 1)
         IN shorter \cup {Append(s, x) : s \in shorter, x \in S}

\* the JSON objects manifest.json may hold at the start: any of the three
\* keys may be missing, the records come in any order, a path may repeat
InitManifests ==
    LET versions == {<<>>} \cup {[version |-> v] : v \in InitVersions}
        bases    == {<<>>} \cup {[base_version |-> b] : b \in InitBaseVersions}
        lists    == {<<>>} \cup {[files |-> f] : f \in SeqsUpTo(InitRecords, MaxInitFiles)}
        Merge(a, b) == [k \in DOMAIN a \cup DOMAIN b |->
                           IF k \in DOMAIN a THEN a[k] ELSE b[k]]
    IN {Merge(Merge(v, b), f) : v \in versions, b \in bases, f \in lists}

\* the script is started on whatever manifest.json it finds
InitAny ==
    /\ fs = {}
    /\ disk \in {Absent, Unparsable} \cup {Document(m) : m \in InitManifests}
    /\ last = NoRun
    /\ gone = <<>>

Next ==
    \/ \E force_bump \in BOOLEAN, io \in IO : Update(force_bump, io) /\ UNCHANGED gone
    \/ \E new_base_version \in ResetVersions, io \in IO :
          Reset(new_base_version, io) /\ UNCHANGED gone
    \/ \E e \in Tree : CreateEntry(e) /\ UNCHANGED gone
    \/ \E e \in Tree : DeleteEntry(e) /\ UNCHANGED gone

Spec == Init /\ [][Next]_vars

SpecAny == InitAny /\ [][Next]_vars

\* What a step does to gone.  A completed update drops the records of
\* existing_files whose path is not in the scan: each such path enters gone
\* with the added value dropped.  A path that a completed update records
\* again leaves gone.  A completed reset empties gone.
Track ==
    gone' =
        CASE last'.op = "none" \/ last'.raised -> gone
          [] last'.op = "reset" ->
                <<>>
          [] OTHER ->
                LET existing == existing_files(load_manifest(disk))
                IN [p \in (DOMAIN gone \cup DOMAIN existing) \ last'.current_files |->
                       IF p \in DOMAIN existing THEN existing[p] ELSE gone[p]]

\* Spec, with the dropped records followed
NextHistory ==
    \/ \E force_bump \in BOOLEAN, io \in IO : Update(force_bump, io) /\ Track
    \/ \E new_base_version \in ResetVersions, io \in IO :
          Reset(new_base_version, io) /\ Track
    \/ \E e \in Tree : CreateEntry(e) /\ Track
    \/ \E e \in Tree : DeleteEntry(e) /\ Track

SpecHistory == Init /\ [][NextHistory]_vars

----------------------------------------------------------------------------
(* What the properties below speak of *)

\* the last run was `op` and it returned
Completed(op) == last.op = op /\ ~last.raised

\* the manifest the last run loaded, or would have loaded
Loaded == load_manifest(last.before)

\* the records of the manifest the last run found
Prior == Get(Loaded, "files", <<>>)

\* the records now in manifest.json
Now == Get(disk.json, "files", <<>>)

PriorPaths == {Prior[i].path : i \in 1..Len(Prior)}

\* the version the last run found, current_version of update_manifest
LoadedVersion == Get(Loaded, "version", BASE_VERSION)

\* manifest.json held a JSON object with a version when the last run began
StoredBefore == last.before.parses /\ "version" \in DOMAIN last.before.json

Max(S) == CHOOSE x \in S : \A y \in S : y <= x

----------------------------------------------------------------------------
(* C1 *)

\* C1: after an update that returned, every record of manifest.json whose
\* path had a record in the manifest found at the start carries the added
\* value of that record (of the last of them if the path was repeated), and
\* every scanned path that had a record has one now.
AddedTagStability ==
    Completed("update") =>
        /\ \A p \in last.current_files \cap PriorPaths :
              \E k \in 1..Len(Now) : Now[k].path = p
        /\ \A k \in 1..Len(Now) :
              LET olds == {i \in 1..Len(Prior) : Prior[i].path = Now[k].path}
              IN olds # {} => Now[k].added = Prior[Max(olds)].added

\* an update that found a new file and bumped the version, next to a path
\* that keeps an older tag
AddedTagStabilityWitness ==
    /\ Completed("update")
    /\ last.result[1] > 0
    /\ \E k \in 1..Len(Now) :
          /\ Now[k].path \in PriorPaths
          /\ Now[k].added < disk.json.version

----------------------------------------------------------------------------
(* C2 *)

\* C2: an update that returned stores a version >= the one it loaded; the
\* stored version is the loaded one plus 1 if --force was given or a scanned
\* path had no record, and the loaded one otherwise.
VersionBumpRule ==
    Completed("update") =>
        LET bump == last.force \/ (last.current_files \ PriorPaths) # {}
        IN /\ disk.json.version >= LoadedVersion
           /\ bump => disk.json.version = LoadedVersion + 1
           /\ ~bump => disk.json.version = LoadedVersion

\* a removal-only update: paths were dropped, none added, no --force, and
\* the version is the loaded one
VersionBumpRuleWitness ==
    /\ Completed("update")
    /\ ~last.force
    /\ last.result[1] = 0
    /\ last.result[2] > 0
    /\ Len(Now) > 0
    /\ disk.json.version = LoadedVersion

----------------------------------------------------------------------------
(* C3 *)

\* C3 as stated: whatever the run (update, forced update, reset with any
\* integer), the version it stores is >= the version stored before it.
VersionNeverDecreases ==
    (last.op # "none" /\ ~last.raised /\ StoredBefore) =>
        disk.json.version >= last.before.json.version

\* C3 as amended: an update, forced or not, and a reset whose argument is
\* >= the stored version, store a version >= the version stored before.
VersionNeverDecreasesUnderUpdate ==
    (/\ last.op # "none" /\ ~last.raised /\ StoredBefore
     /\ last.op = "reset" => last.reset >= last.before.json.version) =>
        disk.json.version >= last.before.json.version

\* an update on a manifest whose version is past the configured base
VersionNeverDecreasesWitness ==
    /\ Completed("update")
    /\ StoredBefore
    /\ last.before.json.version > BASE_VERSION
    /\ last.result[2] > 0

----------------------------------------------------------------------------
(* C4 *)

\* C4: every manifest.json the script has written has
\* version >= base_version.
VersionAtLeastBase ==
    (disk.parses /\ last.op # "none") =>
        disk.json.version >= disk.json.base_version

----------------------------------------------------------------------------
(* C5 *)

\* C5: in normal mode a run that returns 0 has left manifest.json as it
\* was, and a run that returns 1 has changed it.
ExitCodeContract ==
    Completed("update") =>
        /\ last.exit = 0 => disk = last.before
        /\ last.exit = 1 => disk # last.before

----------------------------------------------------------------------------
(* C6 *)

\* C6: after an update or a reset that returned, manifest.json holds one
\* record for each scanned path and no other record.
OneRecordPerScannedPath ==
    (Completed("update") \/ Completed("reset")) =>
        /\ {Now[k].path : k \in 1..Len(Now)} = last.current_files
        /\ Len(Now) = Cardinality(last.current_files)

\* an update on a manifest that repeated a path and held a path that is no
\* longer in the tree
OneRecordPerScannedPathWitness ==
    /\ Completed("update")
    /\ \E i, j \in 1..Len(Prior) : i # j /\ Prior[i].path = Prior[j].path
                                  /\ Prior[i].path \in last.current_files
    /\ last.result[2] > 0

----------------------------------------------------------------------------
(* C7 *)

\* C7: after an update or a reset that returned, the records of
\* manifest.json are in ascending order of path.
SortedOutput ==
    (Completed("update") \/ Completed("reset")) =>
        \A i, j \in 1..Len(Now) : i < j => StrLess(Now[i].path, Now[j].path)

\* an update on a manifest whose records were out of order, writing three
\* records, one path a prefix of the next
SortedOutputWitness ==
    /\ Completed("update")
    /\ Len(Prior) = 2 /\ StrLess(Prior[2].path, Prior[1].path)
    /\ {Prior[1].path, Prior[2].path} \subseteq last.current_files
    /\ Len(Now) = 3

----------------------------------------------------------------------------
(* C8 *)

\* C8: an update without --force that follows an update without --force,
\* nothing changed in between, leaves manifest.json as the first wrote it
\* and returns (0, 0, the same version).
Idempotence ==
    (Completed("update") /\ last.repeat) =>
        /\ disk = last.before
        /\ last.result = <<0, 0, last.before.json.version>>

\* the second of two such updates, on a manifest that lists files tagged
\* below its version
IdempotenceWitness ==
    /\ Completed("update") /\ last.repeat
    /\ Len(Now) >= 2
    /\ \E k \in 1..Len(Now) : Now[k].added < disk.json.version

----------------------------------------------------------------------------
(* C9 *)

\* C9: a reset(n) that returned has stored version n, base_version n and
\* one record with added = n for each scanned path, and returned (|S|, n).
ResetDiscardsHistory ==
    Completed("reset") =>
        /\ disk.json.version = last.reset
        /\ disk.json.base_version = last.reset
        /\ {Now[k].path : k \in 1..Len(Now)} = last.current_files
        /\ Len(Now) = Cardinality(last.current_files)
        /\ \A k \in 1..Len(Now) : Now[k].added = last.reset
        /\ last.result = <<Cardinality(last.current_files), last.reset>>

\* a reset over a manifest with another version that tagged a scanned path
\* otherwise
ResetDiscardsHistoryWitness ==
    /\ Completed("reset")
    /\ StoredBefore
    /\ last.before.json.version # last.reset
    /\ Len(Now) >= 2
    /\ \E i \in 1..Len(Prior) : /\ Prior[i].path \in last.current_files
                                /\ Prior[i].added # last.reset

----------------------------------------------------------------------------
(* C10 *)

\* C10: a run either returns and leaves the whole new manifest in
\* manifest.json, or raises and leaves manifest.json as it was.
NoPartialManifest ==
    last.op # "none" =>
        IF last.raised THEN disk = last.before ELSE disk.parses

----------------------------------------------------------------------------
(* C11 *)

----------------------------------------------------------------------------
(* C12 *)

\* C12: an update that finds a scanned path without a record and returns
\* has stored the loaded version plus 1, however many such paths there
\* are; each of them is recorded with added = that version, and every
\* path that had a record keeps the added value of its record.
NewFileTagging ==
    (Completed("update") /\ (last.current_files \ PriorPaths) # {}) =>
        /\ disk.json.version = LoadedVersion + 1
        /\ \A p \in last.current_files \ PriorPaths :
              \E k \in 1..Len(Now) : Now[k].path = p
        /\ \A k \in 1..Len(Now) :
              LET olds == {i \in 1..Len(Prior) : Prior[i].path = Now[k].path}
              IN Now[k].added = IF olds = {} THEN LoadedVersion + 1
                                ELSE Prior[Max(olds)].added

\* an update that finds two new files next to a file tagged below the
\* loaded version
NewFileTaggingWitness ==
    /\ Completed("update")
    /\ last.result[1] >= 2
    /\ \E k \in 1..Len(Now) : /\ Now[k].path \in PriorPaths
                              /\ Now[k].added < LoadedVersion

----------------------------------------------------------------------------
(* C13 *)

\* the records of the manifest the last run found are in ascending order of
\* path, no path twice
PriorSorted ==
    \A i, j \in 1..Len(Prior) : i < j => StrLess(Prior[i].path, Prior[j].path)

\* C13: an update with --force that scans exactly the paths of the loaded
\* manifest and returns has stored the loaded version plus 1, has kept
\* every path with the added value of its record (the list itself, if it
\* was sorted), and returned (0, 0, that version).
ForcedUpdateNoChange ==
    (Completed("update") /\ last.force /\ last.current_files = PriorPaths) =>
        /\ disk.json.version = LoadedVersion + 1
        /\ {Now[k].path : k \in 1..Len(Now)} = PriorPaths
        /\ \A k \in 1..Len(Now) :
              LET olds == {i \in 1..Len(Prior) : Prior[i].path = Now[k].path}
              IN Now[k].added = Prior[Max(olds)].added
        /\ PriorSorted => Now = Prior
        /\ last.result = <<0, 0, LoadedVersion + 1>>

\* a forced update over a sorted manifest of two files, one tagged below
\* the loaded version, the tree unchanged
ForcedUpdateNoChangeWitness ==
    /\ Completed("update") /\ last.force
    /\ last.current_files = PriorPaths
    /\ PriorSorted
    /\ Len(Prior) >= 2
    /\ \E i \in 1..Len(Prior) : Prior[i].added < LoadedVersion

----------------------------------------------------------------------------
(* C14 *)

\* C14: every record of a manifest.json the script has written has
\* added <= version.
AddedAtMostVersion ==
    disk.parses => \A k \in 1..Len(Now) : Now[k].added <= disk.json.version

\* a manifest written after a reset below the base and later additions: one
\* file tagged below the version, one at the version
AddedAtMostVersionWitness ==
    /\ disk.parses
    /\ \E k \in 1..Len(Now) : Now[k].added < BASE_VERSION
    /\ \E k \in 1..Len(Now) : Now[k].added = disk.json.version
    /\ disk.json.version > BASE_VERSION

----------------------------------------------------------------------------
(* C16 *)

\* no path has two records in the manifest the last run found
PriorUnique ==
    \A i, j \in 1..Len(Prior) : i # j => Prior[i].path # Prior[j].path

\* C16: an update over a manifest without repeated paths returns
\* added_count = |scan \ prior paths|, removed_count = |prior paths \ scan|
\* and the version it stored, and the number of records grows by
\* added_count - removed_count.
CountConservation ==
    (Completed("update") /\ PriorUnique) =>
        /\ last.result[1] = Cardinality(last.current_files \ PriorPaths)
        /\ last.result[2] = Cardinality(PriorPaths \ last.current_files)
        /\ Len(Now) = Len(Prior) + last.result[1] - last.result[2]
        /\ last.result[3] = disk.json.version

\* an update that adds a file, drops a file and keeps a file
CountConservationWitness ==
    /\ Completed("update") /\ PriorUnique
    /\ last.result[1] > 0
    /\ last.result[2] > 0
    /\ Len(Now) >= 2

----------------------------------------------------------------------------
(* C15 *)

\* the update that completes in this step records path p, which an earlier
\* update had dropped
Readds(p) ==
    /\ p \in DOMAIN gone
    /\ last'.op = "update" /\ ~last'.raised
    /\ p \in last'.current_files

\* the added value manifest.json holds for path p after the step
AddedAfter(p) ==
    LET files == disk'.json.files
    IN files[CHOOSE k \in 1..Len(files) : files[k].path = p].added

\* C15: an update that records again a path an earlier update had dropped,
\* no reset in between, bumps the version and records the path with
\* added = the new version, which is greater than the added value the path
\* had when it was dropped.
ReaddedIsNew ==
    [][\A p \in DOMAIN gone :
          Readds(p) =>
              /\ disk'.json.version = current_version(load_manifest(disk)) + 1
              /\ AddedAfter(p) = disk'.json.version
              /\ AddedAfter(p) > gone[p]]_vars

\* the part of the above that does not compare with the dropped value: the
\* path is recorded as a new file, at the bumped version
ReaddedIsTaggedNew ==
    [][\A p \in DOMAIN gone :
          Readds(p) =>
              /\ disk'.json.version = current_version(load_manifest(disk)) + 1
              /\ AddedAfter(p) = disk'.json.version]_vars

====
